---- MODULE Spec2Model ----
(***************************************************************************)
(* kube-rbac-proxy, package auth (src/auth/auth.go).                       *)
(*                                                                         *)
(* The model follows one HTTP request through kubeRBACProxyAuth.Handle:    *)
(* authenticate, derive the authorizer attributes, authorize every         *)
(* attribute record in order, set the identity headers, return.            *)
(*                                                                         *)
(* Go values are represented as follows.                                   *)
(*   - a pointer is a set with at most one element: {} is nil, {v} points  *)
(*     to v; dereferencing nil panics;                                     *)
(*   - a string is a TLA+ string; a string that is used as a template is   *)
(*     kept as the sequence of its lexical segments (plain text and        *)
(*     "{{...}}" actions), TemplateText gives the string itself;           *)
(*   - the raw query of a URL is the sequence of its key=value pairs;      *)
(*   - an http.Header is a function from canonical header keys to the      *)
(*     sequence of values of that key (<<>> when the key is absent).       *)
(***************************************************************************)
EXTENDS Integers, Sequences, FiniteSets, TLC

\* Largest number of key=value pairs in the query string of a request.
MaxParams == 2

\* Request slots of the server; Serving are the slots Spec runs.
Reqs == {"r1", "r2"}
Serving == {"r1"}

-----------------------------------------------------------------------------
(* Pointers *)

IsNil(p) == p = {}
Deref(p) == CHOOSE v \in p : TRUE
PtrTo(S) == {{}} \cup {{v} : v \in S}

-----------------------------------------------------------------------------
(* Configuration: AuthConfig and its parts *)

X509Configs == {[ClientCAFile |-> "ca.crt"]}

\* The two names differ as strings; GroupsFieldName may also be a name that
\* is the user header's in another spelling.
UserFieldNames == {"x-remote-user"}
GroupsFieldNames == {"X-Remote-Groups", "X-Remote-User"}
Separators == {"|", ","}

AuthnHeaderConfigs ==
    [Enabled : {TRUE}, UserFieldName : UserFieldNames,
     GroupsFieldName : GroupsFieldNames, GroupSeparator : Separators]
      \cup
    {[Enabled |-> FALSE, UserFieldName |-> "x-remote-user",
      GroupsFieldName |-> "X-Remote-Groups", GroupSeparator |-> "|"]}

\* BuildAuthHandler reads authn.X509.ClientCAFile, so a Gate only exists for
\* a configuration whose Authentication and X509 are not nil.
AuthnConfigs ==
    [X509 : {{c} : c \in X509Configs}, Header : PtrTo(AuthnHeaderConfigs)]

\* The six fields of ResourceAttributes, in the order of the struct.
RAFields ==
    <<"Namespace", "APIGroup", "APIVersion", "Resource", "Subresource", "Name">>

VALUE == "{{.Value}}"
MISSING == "{{.Missing}}"
UNCLOSED == "{{"

ResourceAttributesSet ==
    { \* plain literals
      [Namespace |-> <<"default">>, APIGroup |-> <<"apps">>,
       APIVersion |-> <<"v1">>, Resource |-> <<"pods">>,
       Subresource |-> <<"log">>, Name |-> <<"web">>],
      \* every field a different template of the value: one is empty and
      \* the execution of one fails half way
      [Namespace |-> <<VALUE>>, APIGroup |-> <<"g.", VALUE>>,
       APIVersion |-> <<>>, Resource |-> <<VALUE, "s">>,
       Subresource |-> <<"x", MISSING, "y">>,
       Name |-> <<"n-", VALUE, "-", VALUE>>],
      \* a template that does not parse
      [Namespace |-> <<VALUE>>, APIGroup |-> <<>>,
       APIVersion |-> <<"v1">>, Resource |-> <<"pods">>,
       Subresource |-> <<>>, Name |-> <<"n-", UNCLOSED>>] }

ParamNames == {"", "ns"}
QueryParameterRewriteConfigs == [Name : ParamNames]
SubjectAccessReviewRewritesSet ==
    [ByQueryParameter : PtrTo(QueryParameterRewriteConfigs)]

AuthzConfigs ==
    [Rewrites : PtrTo(SubjectAccessReviewRewritesSet),
     ResourceAttributes : PtrTo(ResourceAttributesSet)]

AuthConfigs ==
    [Authentication : {{a} : a \in AuthnConfigs},
     Authorization : PtrTo(AuthzConfigs)]

-----------------------------------------------------------------------------
(* Requests *)

Methods == {"POST", "GET", "PUT", "PATCH", "DELETE", "OPTIONS"}
Paths == {"/metrics", "/api/v1/pods"}

QueryPairs ==
    {[key |-> "ns", value |-> "a"], [key |-> "ns", value |-> ""],
     [key |-> "other", value |-> "a"]}

SeqsUpTo(S, n) == UNION {[1..k -> S] : k \in 0..n}
RawQueries == SeqsUpTo(QueryPairs, MaxParams)

\* textproto.CanonicalMIMEHeaderKey on the header names that occur.
CanonicalMIMEHeaderKey(name) ==
    CASE name = "x-remote-user" -> "X-Remote-User"
      [] name = "x-remote-groups" -> "X-Remote-Groups"
      [] OTHER -> name

HeaderKeys ==
    {CanonicalMIMEHeaderKey(n) : n \in UserFieldNames \cup GroupsFieldNames}

NoHeaders == [k \in HeaderKeys |-> <<>>]
SpoofedHeaders ==
    [k \in HeaderKeys |->
        IF k = "X-Remote-User" THEN <<"admin">>
        ELSE <<"system:masters", "wheel">>]
ClientHeaders == {NoHeaders, SpoofedHeaders}

Requests ==
    [Method : Methods, Path : Paths, RawQuery : RawQueries,
     Header : ClientHeaders]

NoRequest ==
    [Method |-> "", Path |-> "", RawQuery |-> <<>>, Header |-> NoHeaders]

\* Mutant: http.Header.Add in place of Set: the value is appended.
HeaderAdd(h, name, value) ==
    [h EXCEPT ![CanonicalMIMEHeaderKey(name)] = Append(@, value)]

\* http.Header.Set and http.Header.Get
HeaderSet(h, name, value) ==
    [h EXCEPT ![CanonicalMIMEHeaderKey(name)] = <<value>>]
HeaderGet(h, name) ==
    LET vs == h[CanonicalMIMEHeaderKey(name)]
    IN  IF vs = <<>> THEN "" ELSE vs[1]

\* url.URL.Query: the values of every key, in the order of the pairs.
RECURSIVE ValuesOf(_, _)
ValuesOf(raw, key) ==
    IF raw = <<>> THEN <<>>
    ELSE IF Head(raw).key = key
         THEN <<Head(raw).value>> \o ValuesOf(Tail(raw), key)
         ELSE ValuesOf(Tail(raw), key)

URLQuery(raw) ==
    [k \in {raw[i].key : i \in DOMAIN raw} |-> ValuesOf(raw, k)]

-----------------------------------------------------------------------------
(* Identities and the two external decision sources *)

Users ==
    {[Name |-> "alice", Groups |-> <<"dev", "ops">>],
     [Name |-> "bob", Groups |-> <<>>]}
NoUser == [Name |-> "", Groups |-> <<>>]

\* What AuthenticateRequest may return: (user, ok, err).
AuthnResults ==
    [user : Users, ok : {TRUE}, err : BOOLEAN]
      \cup [user : {NoUser}, ok : {FALSE}, err : BOOLEAN]
NoAuthn == [user |-> NoUser, ok |-> FALSE, err |-> FALSE]

\* What Authorize may return: (decision, reason, err); the reason is dropped.
Decisions == {"DecisionDeny", "DecisionAllow", "DecisionNoOpinion"}
AuthzResults ==
    [decision : Decisions, err : {FALSE}]
      \cup [decision : {"DecisionAllow", "DecisionNoOpinion"}, err : {TRUE}]

-----------------------------------------------------------------------------
(* State *)

VARIABLES
    config,     \* h.Config, shared by all requests
    pc,         \* where Handle stands for each request
    req,        \* the request as received
    hdr,        \* req.Header
    authn,      \* (u, ok, err) of AuthenticateRequest
    allAttrs,   \* the result of GetRequestAttributes
    idx,        \* position of the loop over allAttrs
    calls,      \* the Authorize invocations so far: attributes and result
    getCalls,   \* number of GetRequestAttributes invocations
    resp,       \* what http.Error wrote: status and body
    ret,        \* what Handle returned: "none", "true", "false"
    heap,       \* the configuration objects in memory, by address
    copy,       \* the pointer c.DeepCopy() returned, nil before the call
    writes      \* number of field writes after the copy was taken

vars ==
    <<config, pc, req, hdr, authn, allAttrs, idx, calls, getCalls, resp, ret,
      heap, copy, writes>>

-----------------------------------------------------------------------------
(* The configuration in memory and DeepCopy *)

\* Largest number of field writes after the copy was taken.
MaxWrites == 2

EmptyHeap == [a \in {} |-> {}]

\* A pointer field: nil when the pointer p is nil, otherwise the address a.
Ref(a, p) == IF IsNil(p) THEN {} ELSE {a}

\* The object a struct without pointer fields occupies at address a.
StoreLeaf(a, p) == IF IsNil(p) THEN EmptyHeap ELSE a :> Deref(p)

StoreAuthn(a, p) ==
    IF IsNil(p) THEN EmptyHeap
    ELSE (a :> [X509 |-> Ref(a \o ".X509", Deref(p).X509),
                Header |-> Ref(a \o ".Header", Deref(p).Header)])
         @@ StoreLeaf(a \o ".X509", Deref(p).X509)
         @@ StoreLeaf(a \o ".Header", Deref(p).Header)

StoreRewrites(a, p) ==
    IF IsNil(p) THEN EmptyHeap
    ELSE (a :> [ByQueryParameter |->
                    Ref(a \o ".ByQueryParameter", Deref(p).ByQueryParameter)])
         @@ StoreLeaf(a \o ".ByQueryParameter", Deref(p).ByQueryParameter)

StoreAuthz(a, p) ==
    IF IsNil(p) THEN EmptyHeap
    ELSE (a :> [Rewrites |-> Ref(a \o ".Rewrites", Deref(p).Rewrites),
                ResourceAttributes |->
                    Ref(a \o ".ResourceAttributes",
                        Deref(p).ResourceAttributes)])
         @@ StoreRewrites(a \o ".Rewrites", Deref(p).Rewrites)
         @@ StoreLeaf(a \o ".ResourceAttributes", Deref(p).ResourceAttributes)

\* The objects of the AuthConfig cfg, the AuthConfig itself at address a.
Store(a, cfg) ==
    (a :> [Authentication |-> Ref(a \o ".Authentication", cfg.Authentication),
           Authorization |-> Ref(a \o ".Authorization", cfg.Authorization)])
    @@ StoreAuthn(a \o ".Authentication", cfg.Authentication)
    @@ StoreAuthz(a \o ".Authorization", cfg.Authorization)

\* What is read through a pointer p in the heap h.
LoadLeaf(h, p) == {h[a] : a \in p}

LoadAuthn(h, p) ==
    {[X509 |-> LoadLeaf(h, h[a].X509), Header |-> LoadLeaf(h, h[a].Header)] :
        a \in p}

LoadRewrites(h, p) ==
    {[ByQueryParameter |-> LoadLeaf(h, h[a].ByQueryParameter)] : a \in p}

LoadAuthz(h, p) ==
    {[Rewrites |-> LoadRewrites(h, h[a].Rewrites),
      ResourceAttributes |-> LoadLeaf(h, h[a].ResourceAttributes)] : a \in p}

\* The AuthConfig read through the address a.
Load(h, a) ==
    [Authentication |-> LoadAuthn(h, h[a].Authentication),
     Authorization |-> LoadAuthz(h, h[a].Authorization)]

PtrFields ==
    {"Authentication", "Authorization", "X509", "Header", "Rewrites",
     "ByQueryParameter", "ResourceAttributes"}

\* The objects the pointer fields of the objects in S point to.
Pointees(h, S) ==
    UNION {UNION {h[a][f] : f \in PtrFields \cap DOMAIN h[a]} : a \in S}

\* The objects reached from the address a; the deepest one, a
\* QueryParameterRewriteConfig, is three pointers from the AuthConfig.
Reach(h, a) ==
    LET S1 == {a} \cup Pointees(h, {a})
        S2 == S1 \cup Pointees(h, S1)
    IN  S2 \cup Pointees(h, S2)

\* res := &AuthConfig{Authentication: c.Authentication,
\*                    Authorization: c.Authorization}
DeepCopyShallow(h, c) ==
    [heap |-> h @@ ("&AuthConfig@91" :> h[c]), res |-> "&AuthConfig@91"]

\* c.DeepCopy() in the heap h: the heap with the objects allocated, each at
\* the address of the expression that allocates it, and the result.
DeepCopy(h, c) ==
    LET cAuthn == h[c].Authentication
        cAuthz == h[c].Authorization
        cX509 == IF IsNil(cAuthn) THEN {} ELSE h[Deref(cAuthn)].X509
        cHeader == IF IsNil(cAuthn) THEN {} ELSE h[Deref(cAuthn)].Header
        cRA == IF IsNil(cAuthz) THEN {} ELSE h[Deref(cAuthz)].ResourceAttributes
        new ==
            ("&AuthConfig@91" :>
                [Authentication |-> IF IsNil(cAuthn) THEN {"&AuthnConfig@92"}
                                    ELSE {"&AuthnConfig@96"},
                 Authorization |-> Ref("&AuthzConfig@116", cRA)])
            @@ ("&AuthnConfig@92" :> [X509 |-> {}, Header |-> {}])
            @@ (IF IsNil(cAuthn) THEN EmptyHeap
                ELSE "&AuthnConfig@96" :>
                        [X509 |-> Ref("&X509Config@99", cX509),
                         Header |-> Ref("&AuthnHeaderConfig@105", cHeader)])
            @@ (IF IsNil(cX509) THEN EmptyHeap
                ELSE "&X509Config@99" :>
                        [ClientCAFile |-> h[Deref(cX509)].ClientCAFile])
            @@ (IF IsNil(cHeader) THEN EmptyHeap
                ELSE "&AuthnHeaderConfig@105" :>
                        [Enabled |-> h[Deref(cHeader)].Enabled,
                         UserFieldName |-> h[Deref(cHeader)].UserFieldName,
                         GroupsFieldName |-> h[Deref(cHeader)].GroupsFieldName,
                         GroupSeparator |-> h[Deref(cHeader)].GroupSeparator])
            @@ (IF IsNil(cRA) THEN EmptyHeap
                ELSE ("&AuthzConfig@116" :>
                        [Rewrites |-> {},
                         ResourceAttributes |-> {"&ResourceAttributes@117"}])
                     @@ ("&ResourceAttributes@117" :>
                        [Namespace |-> h[Deref(cRA)].Namespace,
                         APIGroup |-> h[Deref(cRA)].APIGroup,
                         APIVersion |-> h[Deref(cRA)].APIVersion,
                         Resource |-> h[Deref(cRA)].Resource,
                         Subresource |-> h[Deref(cRA)].Subresource,
                         Name |-> h[Deref(cRA)].Name]))
    IN  [heap |-> h @@ new, res |-> "&AuthConfig@91"]

-----------------------------------------------------------------------------
(* templateWithValue *)

RECURSIVE TemplateText(_)
TemplateText(segments) ==
    IF segments = <<>> THEN ""
    ELSE Head(segments) \o TemplateText(Tail(segments))

\* template.Parse fails on an action that is not closed and then returns a
\* nil template (its error is dropped at line 346).
ParseFails(segments) == \E i \in DOMAIN segments : segments[i] = UNCLOSED

\* Template.Execute writes text and the value of every {{.Value}} to the
\* buffer and stops with an error, which line 348 drops, at the first action
\* it cannot evaluate; what was written before stays in the buffer.
RECURSIVE Execute(_, _)
Execute(segments, value) ==
    IF segments = <<>> THEN ""
    ELSE IF Head(segments) = MISSING THEN ""
    ELSE (IF Head(segments) = VALUE THEN value ELSE Head(segments))
            \o Execute(Tail(segments), value)

\* Execute on the nil template dereferences it: a run-time panic, which
\* text/template does not recover.
templateWithValue(templateString, value) ==
    IF ParseFails(templateString)
    THEN [panic |-> TRUE, out |-> ""]
    ELSE [panic |-> FALSE, out |-> Execute(templateString, value)]

-----------------------------------------------------------------------------
(* GetRequestAttributes *)

\* Mutant: a method without a verb of its own is treated as a read.
ApiVerbDefaultsToGet(method) ==
    CASE method = "POST" -> "create"
      [] method = "PUT" -> "update"
      [] method = "PATCH" -> "patch"
      [] method = "DELETE" -> "delete"
      [] OTHER -> "get"

ApiVerb(method) ==
    CASE method = "POST" -> "create"
      [] method = "GET" -> "get"
      [] method = "PUT" -> "update"
      [] method = "PATCH" -> "patch"
      [] method = "DELETE" -> "delete"
      [] OTHER -> ""

AttributesRecord(u, verb, ns, grp, ver, res, sub, name, isRes, path) ==
    [User |-> u, Verb |-> verb, Namespace |-> ns, APIGroup |-> grp,
     APIVersion |-> ver, Resource |-> res, Subresource |-> sub,
     Name |-> name, ResourceRequest |-> isRes, Path |-> path]

\* Mutant: the record of a rewrite is not marked as a resource request.
RewriteAttrsNotResource(ra, u, apiVerb, param) ==
    AttributesRecord(u, apiVerb,
        templateWithValue(ra.Namespace, param).out,
        templateWithValue(ra.APIGroup, param).out,
        templateWithValue(ra.APIVersion, param).out,
        templateWithValue(ra.Resource, param).out,
        templateWithValue(ra.Subresource, param).out,
        templateWithValue(ra.Name, param).out,
        FALSE, "")

\* lines 237-247: one record for one value of the rewrite parameter
RewriteAttrs(ra, u, apiVerb, param) ==
    AttributesRecord(u, apiVerb,
        templateWithValue(ra.Namespace, param).out,
        templateWithValue(ra.APIGroup, param).out,
        templateWithValue(ra.APIVersion, param).out,
        templateWithValue(ra.Resource, param).out,
        templateWithValue(ra.Subresource, param).out,
        templateWithValue(ra.Name, param).out,
        TRUE, "")

\* Mutant: the configured strings are rendered as templates of "".
LiteralAttrsRendered(ra, u, apiVerb) == RewriteAttrs(ra, u, apiVerb, "")

\* lines 251-261: the configured strings as they are
LiteralAttrs(ra, u, apiVerb) ==
    AttributesRecord(u, apiVerb,
        TemplateText(ra.Namespace), TemplateText(ra.APIGroup),
        TemplateText(ra.APIVersion), TemplateText(ra.Resource),
        TemplateText(ra.Subresource), TemplateText(ra.Name),
        TRUE, "")

\* lines 265-278
PathAttrs(u, apiVerb, requestPath) ==
    AttributesRecord(u, apiVerb, "", "", "", "", "", "", FALSE, requestPath)

\* line 230
RewriteConfigured(az) ==
    /\ ~IsNil(az.Rewrites)
    /\ ~IsNil(Deref(az.Rewrites).ByQueryParameter)
    /\ Deref(Deref(az.Rewrites).ByQueryParameter).Name # ""

RewriteName(az) == Deref(Deref(az.Rewrites).ByQueryParameter).Name

TemplatePanics(ra) ==
    \E i \in DOMAIN RAFields : ParseFails(ra[RAFields[i]])

\* lines 231-249
RewrittenAttrs(ra, name, u, apiVerb, r) ==
    LET query == URLQuery(r.RawQuery)
    IN  IF name \notin DOMAIN query
        THEN [panic |-> FALSE, attrs |-> <<>>]
        ELSE LET params == query[name]
             IN  IF params # <<>> /\ TemplatePanics(ra)
                 THEN [panic |-> TRUE, attrs |-> <<>>]
                 ELSE [panic |-> FALSE,
                       attrs |-> [i \in DOMAIN params |->
                                    RewriteAttrs(ra, u, apiVerb, params[i])]]

\* Mutant: the rewrite parameter is looked up before ResourceAttributes is
\* tested, so its absence empties the result in every configuration.
GetRequestAttributesRewriteFirst(authzConfig, u, r) ==
    LET apiVerb == ApiVerb(r.Method)
    IN  IF IsNil(authzConfig)
        THEN [panic |-> TRUE, attrs |-> <<>>]
        ELSE LET az == Deref(authzConfig)
             IN  IF RewriteConfigured(az)
                      /\ RewriteName(az) \notin DOMAIN URLQuery(r.RawQuery)
                 THEN [panic |-> FALSE, attrs |-> <<>>]
                 ELSE IF ~IsNil(az.ResourceAttributes)
                 THEN IF RewriteConfigured(az)
                      THEN RewrittenAttrs(Deref(az.ResourceAttributes),
                                          RewriteName(az), u, apiVerb, r)
                      ELSE [panic |-> FALSE,
                            attrs |-> <<LiteralAttrs(Deref(az.ResourceAttributes),
                                                     u, apiVerb)>>]
                 ELSE [panic |-> FALSE,
                       attrs |-> <<PathAttrs(u, apiVerb, r.Path)>>]

\* The result is [panic, attrs]: panic when the call does not return.
\* n.authzConfig is the Authorization pointer of the configuration the Gate
\* was built with (lines 145, 203-205); line 229 dereferences it.
GetRequestAttributes(authzConfig, u, r) ==
    LET apiVerb == ApiVerb(r.Method)
    IN  IF IsNil(authzConfig)
        THEN [panic |-> TRUE, attrs |-> <<>>]
        ELSE LET az == Deref(authzConfig)
             IN  IF ~IsNil(az.ResourceAttributes)
                 THEN IF RewriteConfigured(az)
                      THEN RewrittenAttrs(Deref(az.ResourceAttributes),
                                          RewriteName(az), u, apiVerb, r)
                      ELSE [panic |-> FALSE,
                            attrs |-> <<LiteralAttrs(Deref(az.ResourceAttributes),
                                                     u, apiVerb)>>]
                 ELSE [panic |-> FALSE,
                       attrs |-> <<PathAttrs(u, apiVerb, r.Path)>>]

-----------------------------------------------------------------------------
(* Handle *)

StatusBadRequest == 400
StatusUnauthorized == 401
StatusForbidden == 403
StatusInternalServerError == 500

\* strings.Join
RECURSIVE Join(_, _)
Join(elems, sep) ==
    IF elems = <<>> THEN ""
    ELSE IF Len(elems) = 1 THEN elems[1]
    ELSE elems[1] \o sep \o Join(Tail(elems), sep)

\* the arguments of the two Sprintf calls of lines 321 and 327
Detail(u, attrs) ==
    "(user=" \o u.Name \o ", verb=" \o attrs.Verb \o ", resource="
        \o attrs.Resource \o ", subresource=" \o attrs.Subresource \o ")"

BadRequestMsg == "Bad Request. The request or configuration is malformed."

\* http.Error followed by return false
Reject(r, code, msg) ==
    /\ resp' = [resp EXCEPT ![r] = Append(@, [status |-> code, body |-> msg])]
    /\ ret' = [ret EXCEPT ![r] = "false"]
    /\ pc' = [pc EXCEPT ![r] = "done"]

\* A request arrives and Handle is called on it.
Receive(r) ==
    /\ pc[r] = "idle"
    /\ \E q \in Requests :
          /\ req' = [req EXCEPT ![r] = q]
          /\ hdr' = [hdr EXCEPT ![r] = q.Header]
    /\ pc' = [pc EXCEPT ![r] = "authn"]
    /\ UNCHANGED <<config, heap, copy, writes, authn, allAttrs, idx, calls, getCalls, resp, ret>>

\* Mutant: the error of the authenticator is not looked at.
AuthnFailedIgnoresErr(a) == ~a.ok

\* lines 298 and 303: the two tests that end Handle with 401
AuthnFailed(a) == a.err \/ ~a.ok

\* Mutant: the identity headers are set as soon as the caller is
\* authenticated, before the request is authorized.
AuthenticateSetsHeaders(r) ==
    /\ pc[r] = "authn"
    /\ \E a \in AuthnResults :
          /\ authn' = [authn EXCEPT ![r] = a]
          /\ IF a.err \/ ~a.ok
             THEN /\ resp' = [resp EXCEPT ![r] =
                                Append(@, [status |-> 401, body |-> "Unauthorized"])]
                  /\ ret' = [ret EXCEPT ![r] = "false"]
                  /\ pc' = [pc EXCEPT ![r] = "done"]
                  /\ UNCHANGED hdr
             ELSE /\ pc' = [pc EXCEPT ![r] = "attrs"]
                  /\ hdr' = [hdr EXCEPT ![r] =
                               [k \in DOMAIN @ |-> <<a.user.Name>>]]
                  /\ UNCHANGED <<resp, ret>>
    /\ UNCHANGED <<config, heap, copy, writes, req, allAttrs, idx, calls, getCalls>>

\* Mutant: the response tells an authenticator error from a plain failure.
AuthenticateLeaksError(r) ==
    /\ pc[r] = "authn"
    /\ \E a \in AuthnResults :
          /\ authn' = [authn EXCEPT ![r] = a]
          /\ IF a.err \/ ~a.ok
             THEN /\ resp' = [resp EXCEPT ![r] =
                                Append(@, [status |-> 401,
                                           body |-> IF a.err
                                                    THEN "Unauthorized: error"
                                                    ELSE "Unauthorized"])]
                  /\ ret' = [ret EXCEPT ![r] = "false"]
                  /\ pc' = [pc EXCEPT ![r] = "done"]
             ELSE /\ pc' = [pc EXCEPT ![r] = "attrs"]
                  /\ UNCHANGED <<resp, ret>>
    /\ UNCHANGED <<config, heap, copy, writes, req, hdr, allAttrs, idx, calls, getCalls>>

\* lines 297-306
Authenticate(r) ==
    /\ pc[r] = "authn"
    /\ \E a \in AuthnResults :
          /\ authn' = [authn EXCEPT ![r] = a]
          /\ IF AuthnFailed(a)
             THEN Reject(r, StatusUnauthorized, "Unauthorized")
             ELSE /\ pc' = [pc EXCEPT ![r] = "attrs"]
                  /\ UNCHANGED <<resp, ret>>
    /\ UNCHANGED <<config, heap, copy, writes, req, hdr, allAttrs, idx, calls, getCalls>>

\* Mutant: the getter keeps the derived sequence in a field of its own,
\* which every request in flight reads.
GetAttributesShared(r) ==
    /\ pc[r] = "attrs"
    /\ getCalls' = [getCalls EXCEPT ![r] = @ + 1]
    /\ LET got == GetRequestAttributes(config.Authorization, authn[r].user, req[r])
       IN  IF got.panic
           THEN /\ pc' = [pc EXCEPT ![r] = "panic"]
                /\ UNCHANGED <<allAttrs, idx, resp, ret>>
           ELSE /\ allAttrs' = [q \in Reqs |-> got.attrs]
                /\ IF Len(got.attrs) = 0
                   THEN /\ Reject(r, StatusBadRequest, BadRequestMsg)
                        /\ UNCHANGED idx
                   ELSE /\ pc' = [pc EXCEPT ![r] = "authz"]
                        /\ idx' = [idx EXCEPT ![r] = 1]
                        /\ UNCHANGED <<resp, ret>>
    /\ UNCHANGED <<config, heap, copy, writes, req, hdr, authn, calls>>

\* lines 309-315
GetAttributes(r) ==
    /\ pc[r] = "attrs"
    /\ getCalls' = [getCalls EXCEPT ![r] = @ + 1]
    /\ LET got == GetRequestAttributes(config.Authorization, authn[r].user, req[r])
       IN  IF got.panic
           THEN /\ pc' = [pc EXCEPT ![r] = "panic"]
                /\ UNCHANGED <<allAttrs, idx, resp, ret>>
           ELSE /\ allAttrs' = [allAttrs EXCEPT ![r] = got.attrs]
                /\ IF Len(got.attrs) = 0
                   THEN /\ Reject(r, StatusBadRequest, BadRequestMsg)
                        /\ UNCHANGED idx
                   ELSE /\ pc' = [pc EXCEPT ![r] = "authz"]
                        /\ idx' = [idx EXCEPT ![r] = 1]
                        /\ UNCHANGED <<resp, ret>>
    /\ UNCHANGED <<config, heap, copy, writes, req, hdr, authn, calls>>

\* Mutant: only an explicit deny is forbidden, no-opinion passes.
AuthzOutcomeNoOpinionPasses(z) ==
    IF z.err THEN "error"
    ELSE IF z.decision = "DecisionDeny" THEN "forbidden"
    ELSE "next"

\* Mutant: the decision is tested before the error.
AuthzOutcomeDecisionFirst(z) ==
    IF z.decision # "DecisionAllow" THEN "forbidden"
    ELSE IF z.err THEN "error"
    ELSE "next"

\* lines 320-331: what one result of Authorize does to the loop
AuthzOutcome(z) ==
    IF z.err THEN "error"
    ELSE IF z.decision # "DecisionAllow" THEN "forbidden"
    ELSE "next"

\* Mutant: the loop steps over every second record.
NextIndexSkips(i) == i + 2

\* line 317: the position the loop goes to after position i
NextIndex(i) == i + 1

\* lines 317-332: one iteration of the loop
Authorize(r) ==
    /\ pc[r] = "authz"
    /\ idx[r] \in DOMAIN allAttrs[r]
    /\ LET attrs == allAttrs[r][idx[r]]
           u == authn[r].user
       IN  \E z \in AuthzResults :
             /\ calls' = [calls EXCEPT ![r] =
                            Append(@, [attrs |-> attrs, at |-> idx[r],
                                       decision |-> z.decision, err |-> z.err])]
             /\ CASE AuthzOutcome(z) = "error" ->
                       /\ Reject(r, StatusInternalServerError,
                                 "Authorization error " \o Detail(u, attrs))
                       /\ UNCHANGED idx
                  [] AuthzOutcome(z) = "forbidden" ->
                       /\ Reject(r, StatusForbidden,
                                 "Forbidden " \o Detail(u, attrs))
                       /\ UNCHANGED idx
                  [] OTHER ->
                       /\ idx' = [idx EXCEPT ![r] = NextIndex(@)]
                       /\ pc' = [pc EXCEPT ![r] =
                                   IF NextIndex(idx[r]) \in DOMAIN allAttrs[r]
                                   THEN "authz" ELSE "annotate"]
                       /\ UNCHANGED <<resp, ret>>
    /\ UNCHANGED <<config, heap, copy, writes, req, hdr, authn, allAttrs, getCalls>>

\* lines 337-339
SetIdentityHeaders(h, headerCfg, u) ==
    HeaderSet(HeaderSet(h, headerCfg.UserFieldName, u.Name),
              headerCfg.GroupsFieldName,
              Join(u.Groups, headerCfg.GroupSeparator))

\* lines 334-342; h.Config.Authentication.Header is dereferenced at line 334
\* and the panic of a nil pointer ends Handle without a return value.
Annotate(r) ==
    /\ pc[r] = "annotate"
    /\ LET header == Deref(config.Authentication).Header
       IN  IF IsNil(header)
           THEN /\ pc' = [pc EXCEPT ![r] = "panic"]
                /\ UNCHANGED <<hdr, ret>>
           ELSE /\ hdr' = [hdr EXCEPT ![r] =
                             IF Deref(header).Enabled
                             THEN SetIdentityHeaders(@, Deref(header), authn[r].user)
                             ELSE @]
                /\ ret' = [ret EXCEPT ![r] = "true"]
                /\ pc' = [pc EXCEPT ![r] = "done"]
    /\ UNCHANGED <<config, heap, copy, writes, req, authn, allAttrs, idx, calls, getCalls, resp>>

-----------------------------------------------------------------------------
(* Specification *)

\* A Gate built by BuildAuthHandler on some configuration; no request yet.
Init ==
    /\ config \in AuthConfigs
    /\ pc = [r \in Reqs |-> "idle"]
    /\ req = [r \in Reqs |-> NoRequest]
    /\ hdr = [r \in Reqs |-> NoHeaders]
    /\ authn = [r \in Reqs |-> NoAuthn]
    /\ allAttrs = [r \in Reqs |-> <<>>]
    /\ idx = [r \in Reqs |-> 0]
    /\ calls = [r \in Reqs |-> <<>>]
    /\ getCalls = [r \in Reqs |-> 0]
    /\ resp = [r \in Reqs |-> <<>>]
    /\ ret = [r \in Reqs |-> "none"]
    /\ heap = Store("c", config)
    /\ copy = {}
    /\ writes = 0

Next ==
    \E r \in Serving :
        \/ Receive(r)
        \/ Authenticate(r)
        \/ GetAttributes(r)
        \/ Authorize(r)
        \/ Annotate(r)

Spec == Init /\ [][Next]_vars

-----------------------------------------------------------------------------
(* Properties of Handle *)

\* AuthenticateRequest has returned for request r.
AuthnReturned(r) == pc[r] \notin {"idle", "authn"}
\* ... and returned ok without an error.
AuthnOK(r) == AuthnReturned(r) /\ authn[r].ok /\ ~authn[r].err
\* Handle is over for request r: it returned or it panicked.
Ended(r) == pc[r] \in {"done", "panic"}
\* A recorded Authorize invocation that returned allow and no error.
CleanAllow(c) == c.decision = "DecisionAllow" /\ ~c.err
AllAllowed(r) ==
    /\ Len(calls[r]) = Len(allAttrs[r])
    /\ \A i \in DOMAIN calls[r] : CleanAllow(calls[r][i])
Rejected(r, code) ==
    /\ pc[r] = "done"
    /\ ret[r] = "false"
    /\ Len(resp[r]) = 1
    /\ resp[r][1].status = code
HeaderCfg == Deref(config.Authentication).Header

\* C1: when AuthenticateRequest returns an error or ok=false, Handle returns
\* false with status 401 and neither GetRequestAttributes nor Authorize is
\* invoked for the request.
C1_AuthnFailureIs401 ==
    \A r \in Reqs :
        (AuthnReturned(r) /\ (authn[r].err \/ ~authn[r].ok)) =>
            /\ Rejected(r, 401)
            /\ resp[r][1].body = "Unauthorized"
            /\ getCalls[r] = 0
            /\ calls[r] = <<>>

C1_Witness ==
    \E r \in Reqs :
        /\ AuthnReturned(r) /\ authn[r].err /\ authn[r].ok
        /\ Rejected(r, 401)

\* C2: Handle returns true if and only if the authenticator returned ok
\* without error, the derived sequence is not empty and Authorize returned
\* allow without error for every record of it.
C2_ProceedIffAllAllowed ==
    \A r \in Reqs :
        Ended(r) =>
            (ret[r] = "true" <=>
                (AuthnOK(r) /\ allAttrs[r] # <<>> /\ AllAllowed(r)))

\* C3 as stated: a request with a query whose decision is not allow is
\* rejected with 403 and no later query is authorized.
C3_NonAllowIs403 ==
    \A r \in Reqs :
        \A i \in DOMAIN calls[r] :
            calls[r][i].decision # "DecisionAllow" =>
                /\ Rejected(r, 403)
                /\ i = Len(calls[r])

\* C3 amended: when Authorize returns, without an error, a decision other
\* than allow, Handle rejects with 403 and no later query is authorized.
C3_NonAllowWithoutErrorIs403 ==
    \A r \in Reqs :
        \A i \in DOMAIN calls[r] :
            (calls[r][i].decision # "DecisionAllow" /\ ~calls[r][i].err) =>
                /\ Rejected(r, 403)
                /\ resp[r][1].body =
                     "Forbidden " \o Detail(authn[r].user, calls[r][i].attrs)
                /\ i = Len(calls[r])

C3_Witness ==
    \E r \in Reqs :
        /\ Len(allAttrs[r]) >= 2
        /\ Len(calls[r]) = 1
        /\ calls[r][1].decision = "DecisionNoOpinion" /\ ~calls[r][1].err
        /\ Rejected(r, 403)

\* C4: when Authorize returns an error, Handle rejects with 500 whatever
\* the decision that comes with it, and no later query is authorized.
C4_AuthorizeErrorIs500 ==
    \A r \in Reqs :
        \A i \in DOMAIN calls[r] :
            calls[r][i].err =>
                /\ Rejected(r, 500)
                /\ i = Len(calls[r])

C4_Witness ==
    \E r \in Reqs :
        /\ Len(allAttrs[r]) >= 2
        /\ Len(calls[r]) = 1
        /\ calls[r][1].err /\ calls[r][1].decision = "DecisionNoOpinion"
        /\ Rejected(r, 500)

\* C5: the Authorize invocations are the records of the derived sequence in
\* its order, none skipped or repeated, up to and including the first whose
\* result is an error or not allow, and all of them when there is none.
C5_AuthorizeInOrder ==
    \A r \in Reqs :
        /\ Len(calls[r]) <= Len(allAttrs[r])
        /\ \A i \in DOMAIN calls[r] :
              /\ calls[r][i].at = i
              /\ calls[r][i].attrs = allAttrs[r][i]
              /\ i < Len(calls[r]) => CleanAllow(calls[r][i])
        /\ (Ended(r) /\ AuthnOK(r) /\ allAttrs[r] # <<>>) =>
              \/ AllAllowed(r)
              \/ /\ calls[r] # <<>>
                 /\ ~CleanAllow(calls[r][Len(calls[r])])
                 /\ ret[r] = "false"

C5_Witness ==
    \E r \in Reqs :
        /\ Len(allAttrs[r]) >= 2
        /\ allAttrs[r][1] # allAttrs[r][2]
        /\ Len(calls[r]) = 2
        /\ ~CleanAllow(calls[r][2])
        /\ pc[r] = "done"

\* C6: when Handle returns false the headers of the request are as they were
\* on entry; they are changed only once every query has been allowed.
C6_NoHeaderChangeOnReject ==
    \A r \in Reqs :
        /\ ret[r] = "false" => hdr[r] = req[r].Header
        /\ hdr[r] # req[r].Header =>
              (ret[r] = "true" /\ allAttrs[r] # <<>> /\ AllAllowed(r))

C6_Witness ==
    \E r \in Reqs :
        /\ Rejected(r, 403)
        /\ Len(calls[r]) = 2
        /\ ~IsNil(HeaderCfg) /\ Deref(HeaderCfg).Enabled
        /\ req[r].Header = SpoofedHeaders

\* C7 as stated: after Handle returned true with header injection enabled,
\* the user header is the user's name and the groups header is the group
\* names joined by the separator, whatever the two header names are.
C7_IdentityHeaders ==
    \A r \in Reqs :
        (ret[r] = "true" /\ ~IsNil(HeaderCfg) /\ Deref(HeaderCfg).Enabled) =>
            LET cfg == Deref(HeaderCfg)
                u == authn[r].user
            IN  /\ HeaderGet(hdr[r], cfg.UserFieldName) = u.Name
                /\ HeaderGet(hdr[r], cfg.GroupsFieldName)
                     = Join(u.Groups, cfg.GroupSeparator)

\* C7 amended: the groups header is the joined group names, and the user
\* header is the user's name when the two names are different header keys;
\* each of them holds that one value only.
C7_IdentityHeadersDistinctKeys ==
    \A r \in Reqs :
        (ret[r] = "true" /\ ~IsNil(HeaderCfg) /\ Deref(HeaderCfg).Enabled) =>
            LET cfg == Deref(HeaderCfg)
                u == authn[r].user
                userKey == CanonicalMIMEHeaderKey(cfg.UserFieldName)
                groupsKey == CanonicalMIMEHeaderKey(cfg.GroupsFieldName)
            IN  /\ hdr[r][groupsKey] = <<Join(u.Groups, cfg.GroupSeparator)>>
                /\ HeaderGet(hdr[r], cfg.GroupsFieldName)
                     = Join(u.Groups, cfg.GroupSeparator)
                /\ userKey # groupsKey =>
                      /\ hdr[r][userKey] = <<u.Name>>
                      /\ HeaderGet(hdr[r], cfg.UserFieldName) = u.Name

C7_Witness ==
    \E r \in Reqs :
        /\ ret[r] = "true"
        /\ ~IsNil(HeaderCfg) /\ Deref(HeaderCfg).Enabled
        /\ Deref(HeaderCfg).GroupsFieldName = "X-Remote-Groups"
        /\ Deref(HeaderCfg).GroupSeparator = "|"
        /\ req[r].Header = SpoofedHeaders
        /\ authn[r].user.Name = "alice"
        /\ HeaderGet(hdr[r], "X-Remote-Groups") = "dev|ops"
        /\ HeaderGet(hdr[r], "X-Remote-User") = "alice"

-----------------------------------------------------------------------------
(* Properties of GetRequestAttributes *)

\* GetRequestAttributes has been called for request r.
Resolved(r) == getCalls[r] = 1
\* The configuration of the getter, when the Gate has one.
Authz == Deref(config.Authorization)
HasResourceAttributes ==
    ~IsNil(config.Authorization) /\ ~IsNil(Authz.ResourceAttributes)
NoResourceAttributes ==
    ~IsNil(config.Authorization) /\ IsNil(Authz.ResourceAttributes)
\* No rewrite: Rewrites absent, ByQueryParameter absent, or its Name empty.
NoRewrite ==
    \/ IsNil(Authz.Rewrites)
    \/ IsNil(Deref(Authz.Rewrites).ByQueryParameter)
    \/ Deref(Deref(Authz.Rewrites).ByQueryParameter).Name = ""
\* The values request r carries for the rewrite key, in their order.
RewriteValues(r) ==
    ValuesOf(req[r].RawQuery,
             Deref(Deref(Authz.Rewrites).ByQueryParameter).Name)

\* C8: with ResourceAttributes and a rewrite key, a request with k values
\* for the key gives k queries in the order of the values, the i-th with
\* every resource field the template rendered against the i-th value, the
\* same verb and user and is-resource-request; with no value the result is
\* empty and Handle returns 400 without a call of Authorize.
C8_FanOut ==
    \A r \in Reqs :
        (Resolved(r) /\ HasResourceAttributes /\ ~NoRewrite) =>
            LET values == RewriteValues(r)
                ra == Deref(Authz.ResourceAttributes)
            IN  /\ Len(allAttrs[r]) = Len(values)
                /\ \A i \in DOMAIN allAttrs[r] :
                      /\ \A j \in DOMAIN RAFields :
                            ~ParseFails(ra[RAFields[j]]) =>
                                allAttrs[r][i][RAFields[j]]
                                  = Execute(ra[RAFields[j]], values[i])
                      /\ allAttrs[r][i].Verb = allAttrs[r][1].Verb
                      /\ allAttrs[r][i].User = authn[r].user
                      /\ allAttrs[r][i].ResourceRequest
                /\ values = <<>> => (Rejected(r, 400) /\ calls[r] = <<>>)

C10_LiteralQuery ==
    \A r \in Reqs :
        (Resolved(r) /\ HasResourceAttributes /\ NoRewrite) =>
            LET ra == Deref(Authz.ResourceAttributes)
            IN  /\ Len(allAttrs[r]) = 1
                /\ allAttrs[r][1].ResourceRequest
                /\ allAttrs[r][1].Path = ""
                /\ \A j \in DOMAIN RAFields :
                      allAttrs[r][1][RAFields[j]] = TemplateText(ra[RAFields[j]])

C10_Witness ==
    \E r \in Reqs :
        /\ Resolved(r) /\ HasResourceAttributes /\ NoRewrite
        /\ ~IsNil(Authz.Rewrites)
        /\ Len(req[r].RawQuery) = 2
        /\ req[r].RawQuery[1] = [key |-> "ns", value |-> "a"]
        /\ Len(allAttrs[r]) = 1
        /\ allAttrs[r][1].Name = "n-{{.Value}}-{{.Value}}"
        /\ allAttrs[r][1].Namespace = "{{.Value}}"

-----------------------------------------------------------------------------
(* Method mapping *)

\* The verb the specification gives each method; "" for any other method.
VerbOfMethod ==
    [m \in Methods |->
        IF m = "POST" THEN "create"
        ELSE IF m = "GET" THEN "get"
        ELSE IF m = "PUT" THEN "update"
        ELSE IF m = "PATCH" THEN "patch"
        ELSE IF m = "DELETE" THEN "delete"
        ELSE ""]

\* C11: every derived query carries the verb of the request's method, the
\* empty verb for a method that has none; such a request is not rejected for
\* its method: once the sequence is derived Authorize is invoked on it, with
\* the empty verb, and a rejection comes only from the authenticator, an
\* empty sequence or a result of Authorize.
C11_MethodMapping ==
    \A r \in Reqs :
        /\ \A i \in DOMAIN allAttrs[r] :
              allAttrs[r][i].Verb = VerbOfMethod[req[r].Method]
        /\ \A i \in DOMAIN calls[r] :
              calls[r][i].attrs.Verb = VerbOfMethod[req[r].Method]
        /\ (Resolved(r) /\ allAttrs[r] # <<>>) =>
              (pc[r] = "authz" \/ calls[r] # <<>>)
        /\ ret[r] = "false" =>
              \/ authn[r].err \/ ~authn[r].ok
              \/ Resolved(r) /\ allAttrs[r] = <<>>
              \/ calls[r] # <<>> /\ ~CleanAllow(calls[r][Len(calls[r])])

C11_Witness ==
    \E r \in Reqs :
        /\ req[r].Method = "OPTIONS"
        /\ Len(calls[r]) = 2
        /\ calls[r][2].attrs.Verb = ""
        /\ ret[r] = "true"

-----------------------------------------------------------------------------
(* Templates, header policy and terminal outcomes *)

\* C14: a template that fails to parse or to execute does not abort the
\* request: with a value for the rewrite key, templateWithValue returns for
\* every field, the sequence is derived and the request goes on to
\* authorization.
C14_TemplateNeverAborts ==
    \A r \in Reqs :
        (Resolved(r) /\ HasResourceAttributes /\ ~NoRewrite
                     /\ RewriteValues(r) # <<>>) =>
            /\ Len(allAttrs[r]) = Len(RewriteValues(r))
            /\ pc[r] = "authz" \/ calls[r] # <<>>

\* C15: with header injection disabled, by Enabled=false or by no header
\* policy at all, an authenticated request whose every query is allowed
\* ends with Handle returning true and its headers unchanged.
C15_DisabledInjectionProceeds ==
    \A r \in Reqs :
        (/\ Ended(r) /\ AuthnOK(r) /\ allAttrs[r] # <<>> /\ AllAllowed(r)
         /\ (IsNil(HeaderCfg) \/ ~Deref(HeaderCfg).Enabled)) =>
            /\ ret[r] = "true"
            /\ hdr[r] = req[r].Header

\* A step of Handle for request r.
HandleStep(r) ==
    Authenticate(r) \/ GetAttributes(r) \/ Authorize(r) \/ Annotate(r)

\* C16: every request reaches exactly one of the outcomes reject-401,
\* reject-400, reject-403, reject-500 and forward: Handle never ends
\* otherwise, it goes on until it has returned, a reject has written one
\* status and body and returned false, a forward has written nothing and
\* returned true, and no call is made twice.
C16_OneTerminalOutcome ==
    \A r \in Reqs :
        /\ pc[r] # "panic"
        /\ pc[r] \in {"authn", "attrs", "authz", "annotate"} => ENABLED HandleStep(r)
        /\ pc[r] = "done" =>
              \/ /\ ret[r] = "false"
                 /\ Len(resp[r]) = 1
                 /\ resp[r][1].status \in {400, 401, 403, 500}
              \/ /\ ret[r] = "true"
                 /\ resp[r] = <<>>
        /\ pc[r] # "done" => (ret[r] = "none" /\ resp[r] = <<>>)
        /\ getCalls[r] <= 1
        /\ Len(calls[r]) <= Len(allAttrs[r])
        /\ \A i \in DOMAIN calls[r] : calls[r][i].at = i

\* The rewrite key does not occur in the URL of request r.
ParamAbsent(r) ==
    \A i \in DOMAIN req[r].RawQuery :
        req[r].RawQuery[i].key
            # Deref(Deref(Authz.Rewrites).ByQueryParameter).Name

\* C17: for an authenticated request the derived sequence is empty, and
\* Handle returns 400, if and only if ResourceAttributes is set, a rewrite
\* with a non-empty name is configured and the URL has no such parameter;
\* in every other case the sequence has at least one query.
C17_EmptyIffParamAbsent ==
    \A r \in Reqs :
        (Resolved(r) /\ ~IsNil(config.Authorization)) =>
            IF HasResourceAttributes /\ ~NoRewrite /\ ParamAbsent(r)
            THEN allAttrs[r] = <<>> /\ Rejected(r, 400)
            ELSE Len(allAttrs[r]) >= 1 /\ ~Rejected(r, 400)

\* C18: every derived query is either a resource request with an empty
\* path, or not a resource request, with the path of the request and the six
\* resource fields empty; the queries of one request have the same mode,
\* verb and user.
C18_OneAddressingMode ==
    \A r \in Reqs :
        \A i \in DOMAIN allAttrs[r] :
            LET q == allAttrs[r][i]
            IN  /\ \/ q.ResourceRequest /\ q.Path = ""
                   \/ /\ ~q.ResourceRequest
                      /\ q.Path = req[r].Path
                      /\ \A j \in DOMAIN RAFields : q[RAFields[j]] = ""
                /\ q.ResourceRequest = allAttrs[r][1].ResourceRequest
                /\ q.Verb = allAttrs[r][1].Verb
                /\ q.User = authn[r].user

C18_Witness ==
    \E r \in Reqs :
        /\ Len(allAttrs[r]) = 2
        /\ allAttrs[r][1].Name # allAttrs[r][2].Name
        /\ allAttrs[r][2].ResourceRequest
        /\ allAttrs[r][2].Path = ""
        /\ req[r].Path = "/api/v1/pods"

-----------------------------------------------------------------------------
(* Concurrent requests *)

\* The server runs Handle for several requests at a time on one Gate.  The
\* requests and configurations of SpecConc are a part of those of Spec.
ConcRequests ==
    [Method : {"GET", "OPTIONS"}, Path : {"/metrics"},
     RawQuery : {<<>>, <<[key |-> "ns", value |-> "a"],
                         [key |-> "ns", value |-> ""]>>},
     Header : {SpoofedHeaders}]

ConcConfigs ==
    {c \in AuthConfigs :
        /\ LET h == Deref(c.Authentication).Header
           IN  IsNil(h) \/ (/\ Deref(h).Enabled
                            /\ Deref(h).GroupsFieldName = "X-Remote-Groups"
                            /\ Deref(h).GroupSeparator = "|")
        /\ \/ IsNil(c.Authorization)
           \/ LET az == Deref(c.Authorization)
              IN  \/ IsNil(az.Rewrites) /\ IsNil(az.ResourceAttributes)
                  \/ /\ RewriteConfigured(az)
                     /\ ~IsNil(az.ResourceAttributes)
                     /\ Deref(az.ResourceAttributes).APIGroup # <<"apps">>}

ReceiveConc(r) ==
    /\ pc[r] = "idle"
    /\ \E q \in ConcRequests :
          /\ req' = [req EXCEPT ![r] = q]
          /\ hdr' = [hdr EXCEPT ![r] = q.Header]
    /\ pc' = [pc EXCEPT ![r] = "authn"]
    /\ UNCHANGED <<config, heap, copy, writes, authn, allAttrs, idx, calls, getCalls, resp, ret>>

InitConc ==
    /\ config \in ConcConfigs
    /\ pc = [r \in Reqs |-> "idle"]
    /\ req = [r \in Reqs |-> NoRequest]
    /\ hdr = [r \in Reqs |-> NoHeaders]
    /\ authn = [r \in Reqs |-> NoAuthn]
    /\ allAttrs = [r \in Reqs |-> <<>>]
    /\ idx = [r \in Reqs |-> 0]
    /\ calls = [r \in Reqs |-> <<>>]
    /\ getCalls = [r \in Reqs |-> 0]
    /\ resp = [r \in Reqs |-> <<>>]
    /\ ret = [r \in Reqs |-> "none"]
    /\ heap = Store("c", config)
    /\ copy = {}
    /\ writes = 0

NextConc ==
    \E r \in Reqs :
        \/ ReceiveConc(r)
        \/ Authenticate(r)
        \/ GetAttributes(r)
        \/ Authorize(r)
        \/ Annotate(r)

SpecConc == InitConc /\ [][NextConc]_vars


\* Handling one request alone: what Handle does with request q on
\* configuration cfg when the authenticator answers a and the authorizer
\* answers zs[1], zs[2], ... to the queries it is asked, in that order.
\* The result is how Handle ends, what it wrote, the queries it had
\* authorized and the headers it left.
FirstNotAllowed(zs, n) ==
    LET bad == {i \in 1..n : i <= Len(zs) /\ ~CleanAllow(zs[i])}
    IN  IF bad = {} THEN 0 ELSE CHOOSE i \in bad : \A j \in bad : i <= j

HandleAlone(cfg, q, a, zs) ==
    IF a.err \/ ~a.ok
    THEN [end |-> "false", asked |-> <<>>, hdr |-> q.Header,
          resp |-> <<[status |-> StatusUnauthorized, body |-> "Unauthorized"]>>]
    ELSE
    LET got == GetRequestAttributes(cfg.Authorization, a.user, q)
        k == FirstNotAllowed(zs, Len(got.attrs))
        header == Deref(cfg.Authentication).Header
    IN  IF got.panic
        THEN [end |-> "panic", asked |-> <<>>, hdr |-> q.Header, resp |-> <<>>]
        ELSE IF got.attrs = <<>>
        THEN [end |-> "false", asked |-> <<>>, hdr |-> q.Header,
              resp |-> <<[status |-> StatusBadRequest, body |-> BadRequestMsg]>>]
        ELSE IF k > 0
        THEN [end |-> "false", asked |-> SubSeq(got.attrs, 1, k),
              hdr |-> q.Header,
              resp |-> <<[status |-> IF zs[k].err
                                     THEN StatusInternalServerError
                                     ELSE StatusForbidden,
                          body |-> (IF zs[k].err THEN "Authorization error "
                                    ELSE "Forbidden ")
                                       \o Detail(a.user, got.attrs[k])]>>]
        ELSE IF IsNil(header)
        THEN [end |-> "panic", asked |-> got.attrs, hdr |-> q.Header,
              resp |-> <<>>]
        ELSE [end |-> "true", asked |-> got.attrs, resp |-> <<>>,
              hdr |-> IF Deref(header).Enabled
                      THEN SetIdentityHeaders(q.Header, Deref(header), a.user)
                      ELSE q.Header]

\* How Handle ended for request r in this state.
Outcome(r) ==
    [end |-> IF pc[r] = "panic" THEN "panic" ELSE ret[r],
     asked |-> [i \in DOMAIN calls[r] |-> calls[r][i].attrs],
     hdr |-> hdr[r],
     resp |-> resp[r]]

Answers(r) ==
    [i \in DOMAIN calls[r] |->
        [decision |-> calls[r][i].decision, err |-> calls[r][i].err]]

\* What belongs to request r.
Slot(r) ==
    <<pc[r], req[r], hdr[r], authn[r], allAttrs[r], idx[r], calls[r],
      getCalls[r], resp[r], ret[r]>>

\* C13: no step writes the configuration, a step that writes what belongs
\* to one request writes nothing of another, and however the steps of the
\* requests interleave, a request that has ended has the outcome of handling it alone with the
\* same answers of the authenticator and the authorizer.
C13_RequestsIndependent ==
    [][/\ config' = config
       /\ heap' = heap
       /\ \A r \in Reqs :
             /\ Slot(r)' # Slot(r) =>
                   \A s \in Reqs \ {r} : Slot(s)' = Slot(s)
             /\ Ended(r)' =>
                   Outcome(r)' = HandleAlone(config, req'[r], authn'[r], Answers(r)')
      ]_vars

\* Two requests are in the authorization loop at the same time, each with
\* a sequence of its own.
C13_Witness ==
    /\ pc["r1"] = "authz" /\ Len(calls["r1"]) = 1 /\ Len(allAttrs["r1"]) = 2
    /\ pc["r2"] = "authz" /\ Len(calls["r2"]) = 1 /\ Len(allAttrs["r2"]) = 2
    /\ allAttrs["r1"] # allAttrs["r2"]

\* C19: of two runs on the same request, one in which the authenticator
\* returns an error and one in which it returns ok=false without error,
\* the status, the body, the absence of authorizer calls and the unchanged
\* headers are the same.
C19_Same401 ==
    \A a, b \in Reqs :
        (/\ AuthnReturned(a) /\ AuthnReturned(b)
         /\ req[a] = req[b]
         /\ authn[a].err
         /\ ~authn[b].ok /\ ~authn[b].err) =>
            /\ Rejected(a, 401) /\ Rejected(b, 401)
            /\ resp[a] = resp[b]
            /\ resp[a][1].body = "Unauthorized"
            /\ calls[a] = <<>> /\ calls[b] = <<>>
            /\ getCalls[a] = 0 /\ getCalls[b] = 0
            /\ hdr[a] = req[a].Header /\ hdr[b] = hdr[a]

C19_Witness ==
    /\ req["r1"] = req["r2"]
    /\ authn["r1"].err /\ authn["r1"].ok
    /\ ~authn["r2"].ok /\ ~authn["r2"].err
    /\ Rejected("r1", 401) /\ Rejected("r2", 401)


-----------------------------------------------------------------------------
(* DeepCopy and writes after it *)

\* The configurations DeepCopy is called on: every pointer nil or not.
CopyAuthnConfigs ==
    {[X509 |-> {}, Header |-> {}],
     [X509 |-> {[ClientCAFile |-> "ca.crt"]},
      Header |-> {[Enabled |-> TRUE, UserFieldName |-> "x-remote-user",
                   GroupsFieldName |-> "X-Remote-Groups",
                   GroupSeparator |-> ","]}]}

CopyAuthzConfigs ==
    {z \in AuthzConfigs :
        /\ \A ra \in z.ResourceAttributes : ra.APIGroup = <<"g.", VALUE>>
        /\ \A w \in z.Rewrites : \A p \in w.ByQueryParameter : p.Name = "ns"}

CopyConfigs ==
    [Authentication : PtrTo(CopyAuthnConfigs),
     Authorization : PtrTo(CopyAuthzConfigs)]

\* The value of a struct of the type the pointer field f points to.
Zero(f) ==
    CASE f = "Authentication" -> [X509 |-> {}, Header |-> {}]
      [] f = "Authorization" -> [Rewrites |-> {}, ResourceAttributes |-> {}]
      [] f = "X509" -> [ClientCAFile |-> ""]
      [] f = "Header" -> [Enabled |-> FALSE, UserFieldName |-> "",
                          GroupsFieldName |-> "", GroupSeparator |-> ""]
      [] f = "Rewrites" -> [ByQueryParameter |-> {}]
      [] f = "ByQueryParameter" -> [Name |-> ""]
      [] f = "ResourceAttributes" ->
            [Namespace |-> <<>>, APIGroup |-> <<>>, APIVersion |-> <<>>,
             Resource |-> <<>>, Subresource |-> <<>>, Name |-> <<>>]

\* The values written to the field f of the object obj that is not a
\* pointer: a bool, a template or a string.
Written(obj, f) ==
    CASE f = "Enabled" -> {~obj.Enabled}
      [] "Namespace" \in DOMAIN obj -> {<<"written-", VALUE>>}
      [] OTHER -> {"written"}

\* The copy is taken.
DeepCopyCall ==
    /\ IsNil(copy)
    /\ LET r == DeepCopy(heap, "c")
       IN  /\ heap' = r.heap
           /\ copy' = {r.res}
    /\ UNCHANGED <<config, pc, req, hdr, authn, allAttrs, idx, calls, getCalls,
                   resp, ret, writes>>

\* One assignment to a field of an object reached from root: nil or a new
\* object to a pointer field, a value to any other field.
WriteField(root) ==
    /\ writes < MaxWrites
    /\ \E a \in Reach(heap, root) : \E f \in DOMAIN heap[a] :
          \/ /\ f \in PtrFields
             /\ ~IsNil(heap[a][f])
             /\ heap' = [heap EXCEPT ![a][f] = {}]
          \/ /\ f \in PtrFields
             /\ LET n == "new" \o ToString(writes + 1)
                IN  heap' = [heap EXCEPT ![a][f] = {n}] @@ (n :> Zero(f))
          \/ /\ f \notin PtrFields
             /\ \E v \in Written(heap[a], f) :
                   heap' = [heap EXCEPT ![a][f] = v]
    /\ writes' = writes + 1
    /\ config' = Load(heap', "c")
    /\ UNCHANGED <<pc, req, hdr, authn, allAttrs, idx, calls, getCalls,
                   resp, ret, copy>>

\* A write to the copy, and a write to c after the copy was taken.
WriteCopy == ~IsNil(copy) /\ WriteField(Deref(copy))
WriteOrig == ~IsNil(copy) /\ WriteField("c")

InitCopy ==
    /\ config \in CopyConfigs
    /\ pc = [r \in Reqs |-> "idle"]
    /\ req = [r \in Reqs |-> NoRequest]
    /\ hdr = [r \in Reqs |-> NoHeaders]
    /\ authn = [r \in Reqs |-> NoAuthn]
    /\ allAttrs = [r \in Reqs |-> <<>>]
    /\ idx = [r \in Reqs |-> 0]
    /\ calls = [r \in Reqs |-> <<>>]
    /\ getCalls = [r \in Reqs |-> 0]
    /\ resp = [r \in Reqs |-> <<>>]
    /\ ret = [r \in Reqs |-> "none"]
    /\ heap = Store("c", config)
    /\ copy = {}
    /\ writes = 0

NextCopy == DeepCopyCall \/ WriteCopy \/ WriteOrig

SpecCopy == InitCopy /\ [][NextCopy]_vars

\* The queries a Gate holding the configuration cfg derives.
Queries(cfg) ==
    [u \in Users, q \in ConcRequests |->
        GetRequestAttributes(cfg.Authorization, u, q)]

\* The fields of the configuration cfg that hold a value, each the set of
\* what is there: empty where a pointer on the way is nil.
Fields(cfg) ==
    [X509 |-> UNION {a.X509 : a \in cfg.Authentication},
     Header |-> UNION {a.Header : a \in cfg.Authentication},
     ResourceAttributes |->
        UNION {z.ResourceAttributes : z \in cfg.Authorization},
     ByQueryParameter |->
        UNION {UNION {w.ByQueryParameter : w \in z.Rewrites} :
                  z \in cfg.Authorization}]

\* C12: the result of c.DeepCopy() equals c in the X509 CA file, the header
\* policy, the six ResourceAttributes fields and
\* Rewrites.ByQueryParameter.Name, and a Gate on the copy derives the
\* queries a Gate on c derives, for every user and request.
C12_DeepCopyPreserves ==
    (~IsNil(copy) /\ writes = 0) =>
        /\ Fields(Load(heap, Deref(copy))) = Fields(Load(heap, "c"))
        /\ Queries(Load(heap, Deref(copy))) = Queries(Load(heap, "c"))

\* A write happened, and only to objects reached from root.
WrittenThrough(root) ==
    /\ heap' # heap
    /\ \A a \in DOMAIN heap : heap'[a] # heap[a] => a \in Reach(heap, root)

\* C20: once the copy is taken, no object is reached from both c and the
\* copy; a write through the copy changes nothing read through c, nor the
\* queries a Gate holding c derives, and a write through c changes nothing
\* read through the copy.
C20_CopyIsolated ==
    [][~IsNil(copy') =>
         /\ Reach(heap', "c") \cap Reach(heap', Deref(copy')) = {}
         /\ (~IsNil(copy) /\ WrittenThrough(Deref(copy))) =>
               /\ Load(heap', "c") = Load(heap, "c")
               /\ config' = config
               /\ Queries(Load(heap', "c")) = Queries(Load(heap, "c"))
         /\ (~IsNil(copy) /\ WrittenThrough("c")) =>
               Load(heap', Deref(copy)) = Load(heap, Deref(copy))
      ]_vars

\* c has every part; after the copy was taken a header field of the copy
\* and a template of c were written.
C20_Witness ==
    /\ ~IsNil(copy)
    /\ writes = 2
    /\ \E a \in Load(heap, Deref(copy)).Authentication :
          \E h \in a.Header : h.UserFieldName = "written"
    /\ \E z \in Load(heap, "c").Authorization :
          /\ ~IsNil(z.Rewrites)
          /\ \E ra \in z.ResourceAttributes :
                ra.Resource = <<"written-", VALUE>>

====
